---- MODULE Spec2Model ----
(***************************************************************************)
(* Appointment scheduling and conflict engine of the OVHI backend:         *)
(* the appointment routes (booking, update, status change, delete, bulk,   *)
(* slot discovery) over the appointment table.                             *)
(*                                                                         *)
(* Times are minutes since local midnight of the modelled day.  An         *)
(* appointment row is [id, providerId, locationId, date, duration,         *)
(* status]; duration is the number parsed from the stored string           *)
(* ("30 minutes" -> 30, parseInt(x.split(' ')[0])).                        *)
(***************************************************************************)
EXTENDS Integers, Sequences, FiniteSets, Bags, TLC

----------------------------------------------------------------------------
(* Bounds of the model *)

\* Appointments ever persisted (ids 1..MaxAppts are handed out in order).
MaxAppts == 2
\* Create requests that may be between their conflict query and their insert.
MaxInFlight == 2
\* Start times offered to requests: OpenTime + k * StartStep, k in 0..MaxStartIdx.
MaxStartIdx == 1
StartStep == 15
\* Requests use the first NumDurations entries of the schema's duration list.
NumDurations == 2
\* A PUT body carries at most this many of the modelled optional fields.
MaxPutFields == 1
\* Candidate intervals probed against the rows of the table start at
\* OpenTime - 15 + 5 * k, k in 0..MaxProbeIdx.
MaxProbeIdx == 14
\* Requests name the first NumReqLocations locations.
NumReqLocations == 1
\* Appointments of the table the bulk scenarios start from (ids 1..MaxBulkIds).
MaxBulkIds == 5
\* Appointments of the tables the reports are run on.
MaxReportAppts == 3

----------------------------------------------------------------------------
(* Domains *)

Providers == {"p1", "p2"}
LocationList == <<"l1", "l2">>
Locations == {LocationList[i] : i \in 1..Len(LocationList)}

\* appointmentSchema.status / statusUpdateSchema.status
Statuses == {"PENDING", "CONFIRMED", "CANCELLED", "COMPLETED", "NO_SHOW"}

\* appointmentSchema.duration: '15 minutes' ... '90 minutes', as minutes
DurationList == <<15, 30, 45, 60, 90>>
Durations == {DurationList[i] : i \in 1..Len(DurationList)}

Min(a, b) == IF a < b THEN a ELSE b

ReqDurations == {DurationList[i] : i \in 1..Min(NumDurations, Len(DurationList))}
ReqLocations == {LocationList[i] : i \in 1..Min(NumReqLocations, Len(LocationList))}

\* A duration string outside the schema's list ('20 minutes').
BadDuration == CHOOSE d \in {20} : d \notin Durations
\* A status string outside the schema's list.
BadStatus == "RESCHEDULED"

OpenTime == 9 * 60
StartTimes == {OpenTime + k * StartStep : k \in 0..MaxStartIdx}

\* An optional string that was not sent (undefined in JS).
Absent == "absent"
\* An optional body field of any type: <<>> when not sent, <<v>> when sent.
None == <<>>
Some(v) == <<v>>
Opt(S) == {None} \cup {Some(v) : v \in S}

\* 24 * 60 * 60 * 1000 ms, in minutes
WindowMinutes == 24 * 60

Ids == 1..MaxAppts

\* location.capacity as seeded: one room at the first location, two at the
\* others.
SeedCapacity == [l \in Locations |-> IF l = LocationList[1] THEN 1 ELSE 2]

\* provider.availability as seeded: Monday 09:00 - 12:00 for every provider.
\* A range "09:00 - 12:00" is kept as its two clock times, <<hour, minute>>.
SeedAvailability ==
  [p \in Providers |->
     [k \in {"monday"} |-> <<[startTime |-> <<9, 0>>, endTime |-> <<12, 0>>]>>]]

VARIABLES
  appointments,  \* the appointment table: a set of rows
  nextId,        \* the id the next insert gets
  pending,       \* bag of create bodies whose conflict query found nothing
                 \* and whose insert has not run yet
  availability,  \* provider.availability: provider -> weekday -> time ranges
  last           \* the response sent last (see Response)

vars == <<appointments, nextId, pending, availability, last>>

\* A response as the caller sees it: the route (op), the HTTP status (code),
\* the ids of the conflicts a 409 lists or of the row a status change returns
\* (ids), affectedCount (count) and availableSlots (slots).  prev is the
\* status the changed row had before, req the query of a slot request or the
\* id list of a bulk request, audits the number of times the handler called
\* createAuditLog and audit what became of the call, events the number of
\* notifications it emitted and event the channel, effects the steps with an
\* effect outside the handler in the order it took them: these are kept for
\* the properties only, the handlers never read them.  data is the data
\* object of the location and conflict reports.
Response(op, code, ids) ==
  [op |-> op, code |-> code, ids |-> ids, prev |-> Absent, count |-> 0,
   req |-> None, slots |-> <<>>, audits |-> 0, audit |-> "none",
   events |-> 0, event |-> "none", effects |-> <<>>, data |-> None]

NoResponse == Response("none", 0, {})

----------------------------------------------------------------------------
(* The audit sink and the tail of every write handler *)

\* CreateAuditLog without its catch: the failure of the sink reaches the caller.
CreateAuditLogRethrows(sinkUp) == IF sinkUp THEN "written" ELSE "thrown"

\* createAuditLog: prisma.auditLog.create inside try/catch.  With the sink up
\* the entry is written; with the sink down the catch logs the error and the
\* call returns normally.
CreateAuditLog(sinkUp) == IF sinkUp THEN "written" ELSE "swallowed"

\* Answered emitting the notification before it writes the audit entry.
AnsweredNotifyFirst(response, sinkUp, emitUp, channel) ==
  [response EXCEPT !.audits = 1, !.audit = CreateAuditLog(sinkUp),
                   !.events = 1, !.event = channel,
                   !.effects = <<"persist", "notify", "audit">>]

\* What follows the store call in every write handler: await createAuditLog,
\* emit on the channel, answer.  Anything thrown on the way (by the audit
\* call, by the emit when emitUp is false) lands in the handler's catch, which
\* answers 500.
Answered(response, sinkUp, emitUp, channel) ==
  LET outcome == CreateAuditLog(sinkUp) IN
  IF outcome = "thrown"
  THEN [Response(response.op, 500, {}) EXCEPT
          !.audits = 1, !.audit = outcome, !.effects = <<"persist", "audit">>]
  ELSE IF ~emitUp
  THEN [Response(response.op, 500, {}) EXCEPT
          !.audits = 1, !.audit = outcome,
          !.effects = <<"persist", "audit", "notify">>]
  ELSE [response EXCEPT !.audits = 1, !.audit = outcome,
                        !.events = 1, !.event = channel,
                        !.effects = <<"persist", "audit", "notify">>]

\* The faults a request may meet: none, the audit sink down, the emit failing.
Faults ==
  {[sinkUp |-> TRUE, emitUp |-> TRUE], [sinkUp |-> FALSE, emitUp |-> TRUE],
   [sinkUp |-> TRUE, emitUp |-> FALSE]}

\* req.io.to(`provider-${providerId}`) and req.io
ProviderRoom == "provider"
GlobalChannel == "global"

----------------------------------------------------------------------------
(* Interval arithmetic *)

\* Reference predicate: half-open intervals [s1,e1) and [s2,e2) overlap.
HalfOpenOverlap(s1, e1, s2, e2) == s1 < e2 /\ s2 < e1

\* PostOverlap with only the first of the three tests: the candidate's start
\* inside the row.
PostOverlapStartOnly(appointmentDate, appointmentEnd, apt) ==
  LET aptStart == apt.date
      aptEnd   == aptStart + apt.duration
  IN  appointmentDate >= aptStart /\ appointmentDate < aptEnd

\* router.post('/') hasConflict: the candidate [appointmentDate, appointmentEnd)
\* against one row.
PostOverlap(appointmentDate, appointmentEnd, apt) ==
  LET aptStart == apt.date
      aptEnd   == aptStart + apt.duration
  IN  \/ (appointmentDate >= aptStart /\ appointmentDate < aptEnd)
      \/ (appointmentEnd > aptStart /\ appointmentEnd <= aptEnd)
      \/ (appointmentDate <= aptStart /\ appointmentEnd >= aptEnd)

\* router.put('/:id') hasConflict
PutOverlap(appointmentDate, appointmentEnd, apt) ==
  LET aptStart == apt.date
      aptEnd   == aptStart + apt.duration
  IN  \/ (appointmentDate >= aptStart /\ appointmentDate < aptEnd)
      \/ (appointmentEnd > aptStart /\ appointmentEnd <= aptEnd)
      \/ (appointmentDate <= aptStart /\ appointmentEnd >= aptEnd)

\* SlotOverlap with the row's end taken as part of the row (closed intervals).
SlotOverlapClosed(current, slotEnd, apt) ==
  LET aptStart == apt.date
      aptEnd   == aptStart + apt.duration
  IN  \/ (current >= aptStart /\ current <= aptEnd)
      \/ (slotEnd >= aptStart /\ slotEnd <= aptEnd)
      \/ (current <= aptStart /\ slotEnd >= aptEnd)

\* router.get('/availability') hasConflict: the slot [current, slotEnd)
SlotOverlap(current, slotEnd, apt) ==
  LET aptStart == apt.date
      aptEnd   == aptStart + apt.duration
  IN  \/ (current >= aptStart /\ current < aptEnd)
      \/ (slotEnd > aptStart /\ slotEnd <= aptEnd)
      \/ (current <= aptStart /\ slotEnd >= aptEnd)

----------------------------------------------------------------------------
(* POST /api/appointments *)

\* Statuses sent by create requests: the schema's default, and the one status
\* the conflict query leaves out.
CreateStatuses == {"PENDING", "CANCELLED"}

\* Bodies of create requests: every modelled field is sent.  One body has a
\* duration the schema refuses.
CreateBodies ==
  [providerId : Providers, locationId : ReqLocations, date : StartTimes,
   duration : ReqDurations, status : CreateStatuses]
  \cup [providerId : {"p1"}, locationId : {LocationList[1]}, date : {OpenTime},
        duration : {BadDuration}, status : {"PENDING"}]

\* appointmentSchema.validate
ValidCreate(value) == value.duration \in Durations /\ value.status \in Statuses

\* PostConflictQuery without the status filter.
PostConflictQueryAnyStatus(value, table) ==
  {apt \in table :
     /\ apt.providerId = value.providerId
     /\ apt.date >= value.date - WindowMinutes
     /\ apt.date <= value.date + WindowMinutes}

\* PostConflictQuery with a window that only looks ahead of the candidate.
PostConflictQueryAhead(value, table) ==
  {apt \in table :
     /\ apt.providerId = value.providerId
     /\ apt.status # "CANCELLED"
     /\ apt.date >= value.date
     /\ apt.date <= value.date + WindowMinutes}

\* prisma.appointment.findMany of the conflict check: same provider, not
\* CANCELLED, date within 24 hours of the candidate's start.
PostConflictQuery(value, table) ==
  {apt \in table :
     /\ apt.providerId = value.providerId
     /\ apt.status # "CANCELLED"
     /\ apt.date >= value.date - WindowMinutes
     /\ apt.date <= value.date + WindowMinutes}

\* conflicts.some(...)
PostHasConflict(value, conflicts) ==
  \E apt \in conflicts : PostOverlap(value.date, value.date + value.duration, apt)

\* PostConflictList reporting only the first conflict found.
PostConflictListFirstOnly(value, conflicts) ==
  LET found == {apt \in conflicts :
                  PostOverlap(value.date, value.date + value.duration, apt)}
  IN  IF found = {} THEN {}
      ELSE {CHOOSE apt \in found : \A other \in found : apt.id <= other.id}

\* conflicts.filter(...): the list sent with the 409
PostConflictList(value, conflicts) ==
  {apt \in conflicts : PostOverlap(value.date, value.date + value.duration, apt)}

IdsOf(rows) == {apt.id : apt \in rows}

\* prisma.appointment.create({ data: value })
NewRow(id, value) ==
  [id |-> id, providerId |-> value.providerId, locationId |-> value.locationId,
   date |-> value.date, duration |-> value.duration, status |-> value.status]

\* The handler up to its first answer: validation, conflict query, decision.
\* A body that passes waits in pending for its insert.
CreateCheck(value) ==
  IF ~ValidCreate(value)
  THEN /\ last' = Response("create", 400, {})
       /\ UNCHANGED <<appointments, nextId, pending, availability>>
  ELSE LET conflicts == PostConflictQuery(value, appointments) IN
       IF PostHasConflict(value, conflicts)
       THEN /\ last' = Response("create", 409,
                                IdsOf(PostConflictList(value, conflicts)))
            /\ UNCHANGED <<appointments, nextId, pending, availability>>
       ELSE /\ BagCardinality(pending) < MaxInFlight
            /\ nextId + BagCardinality(pending) <= MaxAppts
            /\ pending' = pending (+) SetToBag({value})
            /\ UNCHANGED <<appointments, nextId, availability, last>>

\* The rest of the handler: insert, audit entry, notification, 201.
CreateWrite(value, sinkUp, emitUp) ==
  /\ BagIn(value, pending)
  /\ pending' = pending (-) SetToBag({value})
  /\ appointments' = appointments \cup {NewRow(nextId, value)}
  /\ nextId' = nextId + 1
  /\ last' = Answered(Response("create", 201, {}), sinkUp, emitUp, ProviderRoom)
  /\ UNCHANGED availability

\* The table after the whole handler ran on it with no other request in
\* between: the check and the insert see the same table.
CreateAlone(value, table, id) ==
  IF ~ValidCreate(value) \/ PostHasConflict(value, PostConflictQuery(value, table))
  THEN table
  ELSE table \cup {NewRow(id, value)}

----------------------------------------------------------------------------
(* PUT /api/appointments/:id *)

PutFields == {"providerId", "locationId", "date", "duration", "status"}

\* Bodies of update requests: each field is optional.
PutBodies ==
  {value \in [providerId : Opt(Providers),
              locationId : Opt(ReqLocations),
              date : Opt(StartTimes),
              duration : Opt(ReqDurations \cup {BadDuration}),
              status : Opt(CreateStatuses)] :
     Cardinality({f \in PutFields : value[f] # None}) <= MaxPutFields}

\* updateAppointmentSchema.validate
ValidUpdate(value) ==
  /\ value.duration \in Opt(Durations)
  /\ value.status \in Opt(Statuses)

\* a || b on an optional field
OrElse(a, b) == IF a # None THEN a[1] ELSE b

\* PutConflictQuery without the id: { not: id } clause.
PutConflictQueryWithSelf(id, providerId, appointmentDate, table) ==
  {apt \in table :
     /\ apt.providerId = providerId
     /\ apt.status # "CANCELLED"
     /\ apt.date >= appointmentDate - WindowMinutes
     /\ apt.date <= appointmentDate + WindowMinutes}

\* prisma.appointment.findMany of the update's conflict check
PutConflictQuery(id, providerId, appointmentDate, table) ==
  {apt \in table :
     /\ apt.id # id
     /\ apt.providerId = providerId
     /\ apt.status # "CANCELLED"
     /\ apt.date >= appointmentDate - WindowMinutes
     /\ apt.date <= appointmentDate + WindowMinutes}

\* if (value.date || value.duration) { ... hasConflict ... }
PutHasConflict(id, value, existingAppointment, table) ==
  /\ (value.date # None \/ value.duration # None)
  /\ LET appointmentDate == OrElse(value.date, existingAppointment.date)
         durationMinutes == OrElse(value.duration, existingAppointment.duration)
         appointmentEnd  == appointmentDate + durationMinutes
         conflicts == PutConflictQuery(
                        id, OrElse(value.providerId, existingAppointment.providerId),
                        appointmentDate, table)
     IN  \E apt \in conflicts : PutOverlap(appointmentDate, appointmentEnd, apt)

\* prisma.appointment.update({ where: { id }, data: value })
UpdatedRow(row, value) ==
  [id |-> row.id,
   providerId |-> OrElse(value.providerId, row.providerId),
   locationId |-> OrElse(value.locationId, row.locationId),
   date |-> OrElse(value.date, row.date),
   duration |-> OrElse(value.duration, row.duration),
   status |-> OrElse(value.status, row.status)]

RowsWithId(id, table) == {apt \in table : apt.id = id}

\* The whole handler, run with no other request interleaved.
PutRequest(id, value, sinkUp, emitUp) ==
  /\ UNCHANGED <<nextId, pending, availability>>
  /\ IF ~ValidUpdate(value)
     THEN /\ last' = Response("update", 400, {})
          /\ UNCHANGED appointments
     ELSE IF RowsWithId(id, appointments) = {}
     THEN /\ last' = Response("update", 404, {})
          /\ UNCHANGED appointments
     ELSE LET existingAppointment == CHOOSE apt \in appointments : apt.id = id IN
          IF PutHasConflict(id, value, existingAppointment, appointments)
          THEN /\ last' = Response("update", 409, {})
               /\ UNCHANGED appointments
          ELSE /\ appointments' = (appointments \ {existingAppointment})
                                    \cup {UpdatedRow(existingAppointment, value)}
               /\ last' = Answered([Response("update", 200, {})
                                      EXCEPT !.prev = existingAppointment.status],
                                   sinkUp, emitUp, ProviderRoom)

----------------------------------------------------------------------------
(* PATCH /api/appointments/:id/status *)

\* ValidStatusUpdate with a schema that takes any string.
ValidStatusUpdateAnyString(status) == TRUE

\* statusUpdateSchema.validate
ValidStatusUpdate(status) == status \in Statuses

\* WithStatus behind a guard that keeps a CANCELLED, COMPLETED or NO_SHOW row.
WithStatusUnlessTerminal(row, status) ==
  IF row.status \in {"CANCELLED", "COMPLETED", "NO_SHOW"}
  THEN row
  ELSE [row EXCEPT !.status = status]

\* prisma.appointment.update({ where: { id }, data: { status } }) on one row
WithStatus(row, status) == [row EXCEPT !.status = status]

\* The update throws when no row has the id; the catch answers 500.
PatchStatus(id, status, sinkUp, emitUp) ==
  /\ UNCHANGED <<nextId, pending, availability>>
  /\ IF ~ValidStatusUpdate(status)
     THEN /\ last' = Response("status", 400, {})
          /\ UNCHANGED appointments
     ELSE IF RowsWithId(id, appointments) = {}
     THEN /\ last' = Response("status", 500, {})
          /\ UNCHANGED appointments
     ELSE LET row == CHOOSE apt \in appointments : apt.id = id IN
          /\ appointments' = (appointments \ {row}) \cup {WithStatus(row, status)}
          /\ last' = Answered([Response("status", 200, {id})
                                 EXCEPT !.prev = row.status],
                              sinkUp, emitUp, ProviderRoom)

----------------------------------------------------------------------------
(* DELETE /api/appointments/:id *)

DeleteRequest(id, sinkUp, emitUp) ==
  /\ UNCHANGED <<nextId, pending, availability>>
  /\ IF RowsWithId(id, appointments) = {}
     THEN /\ last' = Response("delete", 404, {})
          /\ UNCHANGED appointments
     ELSE /\ appointments' = appointments \ RowsWithId(id, appointments)
          /\ last' = Answered(Response("delete", 200, {}), sinkUp, emitUp,
                              ProviderRoom)

----------------------------------------------------------------------------
(* POST /api/appointments/bulk *)

\* Statuses sent by bulk status updates: one that occupies the provider and
\* the one that does not.
BulkStatuses == {"CONFIRMED", "CANCELLED"}

\* Id lists of bulk requests in ascending order, one for every set of ids.
RECURSIVE Ascending(_, _)
Ascending(ids, n) ==
  IF n = 0 THEN <<>>
  ELSE Ascending(ids, n - 1) \o (IF n \in ids THEN <<n>> ELSE <<>>)

BulkLists == {Ascending(ids, MaxAppts) : ids \in SUBSET Ids}

\* Bodies of bulk requests, <<action, appointmentIds, data.status>>: the two
\* actions on every list of ids, and one body for each way to be refused.
\* appointmentIds is None for a body without an array of ids.
BulkBodies ==
  {<<"delete", Some(list), Absent>> : list \in BulkLists}
  \cup {<<"update-status", Some(list), st>> : list \in BulkLists, st \in BulkStatuses}
  \cup {<<Absent, Some(<<>>), Absent>>, <<"delete", None, Absent>>,
        <<"archive", Some(<<>>), Absent>>, <<"update-status", Some(<<>>), Absent>>}

\* where: { id: { in: appointmentIds } }
RowsIn(appointmentIds, table) ==
  {apt \in table : \E i \in 1..Len(appointmentIds) : apt.id = appointmentIds[i]}

\* BulkUpdated without the where clause.
BulkUpdatedWholeTable(appointmentIds, status, table) ==
  {WithStatus(apt, status) : apt \in table}

\* prisma.appointment.updateMany(... data: { status })
BulkUpdated(appointmentIds, status, table) ==
  {IF apt \in RowsIn(appointmentIds, table) THEN WithStatus(apt, status) ELSE apt :
     apt \in table}

\* AffectedCount taken as the length of the id list.
AffectedCountListLength(appointmentIds, table) == Len(appointmentIds)

\* result.count of deleteMany / updateMany: the rows the where clause matched
AffectedCount(appointmentIds, table) == Cardinality(RowsIn(appointmentIds, table))

\* BulkDone with one audit entry and one notification for each listed id.
BulkDonePerId(appointmentIds, table, sinkUp, emitUp) ==
  [Answered([Response("bulk", 200, {}) EXCEPT
               !.count = AffectedCount(appointmentIds, table),
               !.req = Some(appointmentIds)],
            sinkUp, emitUp, GlobalChannel)
     EXCEPT !.audits = Len(appointmentIds), !.events = Len(appointmentIds)]

\* The answer of a bulk request that reached its store call.
BulkDone(appointmentIds, table, sinkUp, emitUp) ==
  Answered([Response("bulk", 200, {}) EXCEPT
              !.count = AffectedCount(appointmentIds, table),
              !.req = Some(appointmentIds)],
           sinkUp, emitUp, GlobalChannel)

BulkRequest(action, appointmentIds, status, sinkUp, emitUp) ==
  /\ UNCHANGED <<nextId, pending, availability>>
  /\ IF action = Absent \/ appointmentIds = None
     THEN /\ last' = Response("bulk", 400, {})
          /\ UNCHANGED appointments
     ELSE IF action = "delete"
     THEN /\ appointments' = appointments \ RowsIn(appointmentIds[1], appointments)
          /\ last' = BulkDone(appointmentIds[1], appointments, sinkUp, emitUp)
     ELSE IF action = "update-status"
     THEN IF status = Absent
          THEN /\ last' = Response("bulk", 400, {})
               /\ UNCHANGED appointments
          ELSE /\ appointments' = BulkUpdated(appointmentIds[1], status, appointments)
               /\ last' = BulkDone(appointmentIds[1], appointments, sinkUp, emitUp)
     ELSE /\ last' = Response("bulk", 400, {})
          /\ UNCHANGED appointments

----------------------------------------------------------------------------
(* GET /api/appointments/availability *)

MinutesPerDay == 24 * 60

\* current = new Date(current.getTime() + 15 * 60000)
SlotStep == 15

\* new Date(`${date} ${startTime}`): the clock time <<hour, minute>> on the
\* queried day, as minutes.  date is the day's number.
ClockTime(date, t) == date * MinutesPerDay + t[1] * 60 + t[2]

\* selectedDate.toLocaleDateString('en-US', { weekday: 'lowercase' }).
\* Intl.DateTimeFormat takes 'narrow', 'short' or 'long' for weekday and
\* throws a RangeError for any other value, so this call throws for every date.
RangeError == "RangeError"
WeekdayKey(date) == RangeError

\* prisma.appointment.findMany of the slot query: the provider's rows that
\* start on the queried day and are not CANCELLED, at the queried location when
\* one is given.
ExistingForSlots(providerId, locationId, date, table) ==
  {apt \in table :
     /\ apt.providerId = providerId
     /\ (locationId # None => apt.locationId = locationId[1])
     /\ apt.date >= date * MinutesPerDay
     /\ apt.date < (date + 1) * MinutesPerDay
     /\ apt.status # "CANCELLED"}

\* new Date(`${date} ${t}`) for a bound of a range: None (Invalid Date) when
\* the bound does not parse, t being None then.
ParseClock(date, t) == IF t = None THEN None ELSE Some(ClockTime(date, t))

\* SlotsFrom admitting a slot that ends after the range.
RECURSIVE SlotsFromAnyEnd(_, _, _, _)
SlotsFromAnyEnd(current, end, durationMinutes, existingAppointments) ==
  IF current < end
  THEN LET slotEnd == current + durationMinutes
           hasConflict ==
             \E apt \in existingAppointments : SlotOverlap(current, slotEnd, apt)
           here == IF ~hasConflict
                   THEN <<[start |-> current, end |-> slotEnd]>>
                   ELSE <<>>
       IN  here \o SlotsFromAnyEnd(current + SlotStep, end, durationMinutes,
                                   existingAppointments)
  ELSE <<>>

\* The while loop over one range: the cursor runs from current in steps of
\* SlotStep while current < end.
RECURSIVE SlotsFrom(_, _, _, _)
SlotsFrom(current, end, durationMinutes, existingAppointments) ==
  IF current < end
  THEN LET slotEnd == current + durationMinutes
           hasConflict ==
             \E apt \in existingAppointments : SlotOverlap(current, slotEnd, apt)
           here == IF slotEnd <= end /\ ~hasConflict
                   THEN <<[start |-> current, end |-> slotEnd]>>
                   ELSE <<>>
       IN  here \o SlotsFrom(current + SlotStep, end, durationMinutes,
                             existingAppointments)
  ELSE <<>>

\* dayAvailability.forEach(timeRange => ...), from range number i on.  With
\* an Invalid Date on either side current < end is false, so the loop of that
\* range does not run.
RECURSIVE SlotsOfRanges(_, _, _, _, _)
SlotsOfRanges(dayAvailability, i, date, durationMinutes, existingAppointments) ==
  IF i > Len(dayAvailability)
  THEN <<>>
  ELSE LET timeRange == dayAvailability[i]
           start == ParseClock(date, timeRange.startTime)
           end   == ParseClock(date, timeRange.endTime)
       IN  (IF start = None \/ end = None
            THEN <<>>
            ELSE SlotsFrom(start[1], end[1], durationMinutes, existingAppointments))
           \o SlotsOfRanges(dayAvailability, i + 1, date, durationMinutes,
                            existingAppointments)

\* availableSlots as the loop leaves it
AvailableSlots(dayAvailability, date, durationMinutes, existingAppointments) ==
  SlotsOfRanges(dayAvailability, 1, date, durationMinutes, existingAppointments)

SlotQuery(providerId, locationId, date, duration, dayAvailability) ==
  [providerId |-> providerId, locationId |-> locationId, date |-> date,
   duration |-> duration, dayAvailability |-> dayAvailability]

\* provider.availability[dayOfWeek] || []
DayAvailability(providerAvailability, dayOfWeek) ==
  IF dayOfWeek \in DOMAIN providerAvailability
  THEN providerAvailability[dayOfWeek]
  ELSE <<>>

\* The whole handler.  providerId and date are None when the query lacks them.
AvailabilityRequest(providerId, locationId, date, duration) ==
  /\ UNCHANGED <<appointments, nextId, pending, availability>>
  /\ IF providerId = None \/ date = None
     THEN last' = Response("availability", 400, {})
     ELSE IF providerId[1] \notin DOMAIN availability
     THEN last' = Response("availability", 404, {})
     ELSE LET existingAppointments ==
                ExistingForSlots(providerId[1], locationId, date[1], appointments)
              dayOfWeek == WeekdayKey(date[1])
          IN  IF dayOfWeek = RangeError
              THEN last' = [Response("availability", 500, {}) EXCEPT
                              !.req = Some(SlotQuery(providerId[1], locationId, date[1],
                                                     duration, <<>>))]
              ELSE LET dayAvailability ==
                         DayAvailability(availability[providerId[1]], dayOfWeek)
                   IN  last' = [Response("availability", 200, {}) EXCEPT
                                  !.req = Some(SlotQuery(providerId[1], locationId,
                                                         date[1], duration,
                                                         dayAvailability)),
                                  !.slots = AvailableSlots(dayAvailability, date[1],
                                                           duration,
                                                           existingAppointments)]

\* The slot query and the slot loop of the handler (lines 256-269 and 288-332)
\* applied to a day's ranges: what the handler computes once it holds
\* dayAvailability.
SlotLoop(providerId, locationId, date, duration, dayAvailability) ==
  /\ UNCHANGED <<appointments, nextId, pending, availability>>
  /\ last' = [Response("slotloop", 200, {}) EXCEPT
                !.req = Some(SlotQuery(providerId, locationId, date, duration,
                                       dayAvailability)),
                !.slots = AvailableSlots(
                            dayAvailability, date, duration,
                            ExistingForSlots(providerId, locationId, date,
                                             appointments))]

\* Queries of slot requests: a provider of the table, one that is not, or none.
UnknownProvider == "p0"
SlotProviders == Opt(Providers \cup {UnknownProvider})

----------------------------------------------------------------------------
(* GET /api/locations/:id/availability and GET /api/locations/:id/schedule *)

\* Ceil rounding down instead of up.
Floor(n, d) == n \div d

\* Math.ceil(n / d) for n >= 0, d > 0
Ceil(n, d) == (n + d - 1) \div d

\* Math.round(n / d) for n >= 0, d > 0: halves go up
Round(n, d) == (2 * n + d) \div (2 * d)

\* Math.max
Max(a, b) == IF a > b THEN a ELSE b

\* apt.date.getHours(), apt.date.getMinutes()
GetHours(t) == (t % MinutesPerDay) \div 60
GetMinutes(t) == t % 60

\* orderBy: { date: 'asc' }: the orders the store may return rows in; rows
\* with equal dates come in either order.
DateOrders(rows) ==
  {list \in [1..Cardinality(rows) -> rows] :
     /\ \A i, j \in 1..Cardinality(rows) : i # j => list[i] # list[j]
     /\ \A i, j \in 1..Cardinality(rows) : i < j => list[i].date <= list[j].date}

\* prisma.appointment.findMany of the location's day: rows of the location
\* that start on the day and are not CANCELLED.
LocationDayRows(id, date, table) ==
  {apt \in table :
     /\ apt.locationId = id
     /\ apt.date >= date * MinutesPerDay
     /\ apt.date < (date + 1) * MinutesPerDay
     /\ apt.status # "CANCELLED"}

\* Keys hourlyCount can get: the hours of the day and those an appointment
\* late in the day runs into.
HourKeys == 0..(23 + Ceil(59 + DurationList[Len(DurationList)], 60))

\* The hour after the last bucket of the appointment
EndHour(apt) == Ceil(GetMinutes(apt.date) + apt.duration, 60) + GetHours(apt.date)

\* appointments.forEach(apt => { for (h = hour; h < endHour; h++) hourlyCount[h]++ })
\* from row number i on; a key never written reads as 0 (hourlyCount[h] || 0).
RECURSIVE HourlyCountFrom(_, _)
HourlyCountFrom(list, i) ==
  IF i > Len(list)
  THEN [h \in HourKeys |-> 0]
  ELSE LET apt     == list[i]
           hour    == GetHours(apt.date)
           endHour == EndHour(apt)
           rest    == HourlyCountFrom(list, i + 1)
       IN  [h \in HourKeys |-> IF h >= hour /\ h < endHour THEN rest[h] + 1 ELSE rest[h]]

HourlyCount(rows) == HourlyCountFrom(CHOOSE list \in DateOrders(rows) : TRUE, 1)

\* AvailabilityEntry without Math.max
AvailabilityEntryUnclamped(currentCount, capacity) ==
  [currentAppointments |-> currentCount,
   availableSlots |-> capacity - currentCount,
   isAvailable |-> currentCount < capacity,
   utilizationPercentage |-> Round(currentCount * 100, capacity)]

\* AvailabilityEntry that still calls a full bucket available.
AvailabilityEntryFullIsAvailable(currentCount, capacity) ==
  [currentAppointments |-> currentCount,
   availableSlots |-> Max(0, capacity - currentCount),
   isAvailable |-> currentCount <= capacity,
   utilizationPercentage |-> Round(currentCount * 100, capacity)]

\* availabilityByHour[hour]
AvailabilityEntry(currentCount, capacity) ==
  [currentAppointments |-> currentCount,
   availableSlots |-> Max(0, capacity - currentCount),
   isAvailable |-> currentCount < capacity,
   utilizationPercentage |-> Round(currentCount * 100, capacity)]

\* for (let hour = 8; hour <= 18; hour++)
ReportedHours == 8..18

AvailabilityByHour(hourlyCount, capacity) ==
  [hour \in ReportedHours |-> AvailabilityEntry(hourlyCount[hour], capacity)]

\* The whole availability handler of a location.  date is None when the query
\* lacks it.
LocationAvailability(id, date) ==
  /\ UNCHANGED <<appointments, nextId, pending, availability>>
  /\ IF date = None
     THEN last' = Response("location-availability", 400, {})
     ELSE IF id \notin DOMAIN SeedCapacity
     THEN last' = Response("location-availability", 404, {})
     ELSE LET rows == LocationDayRows(id, date[1], appointments) IN
          last' = [Response("location-availability", 200, {}) EXCEPT
                     !.req = Some([id |-> id, date |-> date[1]]),
                     !.data = Some([capacity |-> SeedCapacity[id],
                                    totalAppointments |-> Cardinality(rows),
                                    availabilityByHour |->
                                      AvailabilityByHour(HourlyCount(rows),
                                                         SeedCapacity[id])])]

\* prisma.appointment.findMany of the schedule: rows of the location with
\* startDate <= date <= endDate, both taken as the midnight the day begins
\* with, that are not CANCELLED.
ScheduleRows(id, startDate, endDate, table) ==
  {apt \in table :
     /\ apt.locationId = id
     /\ apt.date >= startDate * MinutesPerDay
     /\ apt.date <= endDate * MinutesPerDay
     /\ apt.status # "CANCELLED"}

\* apt.date.toDateString() === d.toDateString()
OnDay(apt, d) == apt.date \div MinutesPerDay = d

\* One entry of schedule
ScheduleEntry(d, rows, capacity) ==
  LET dayAppointments == {apt \in rows : OnDay(apt, d)} IN
  [date |-> d,
   appointmentCount |-> Cardinality(dayAppointments),
   utilizationPercentage |-> Round(Cardinality(dayAppointments) * 100, capacity),
   isOverCapacity |-> Cardinality(dayAppointments) > capacity]

\* The whole schedule handler of a location.
LocationSchedule(id, startDate, endDate) ==
  /\ UNCHANGED <<appointments, nextId, pending, availability>>
  /\ IF startDate = None \/ endDate = None
     THEN last' = Response("location-schedule", 400, {})
     ELSE IF id \notin DOMAIN SeedCapacity
     THEN last' = Response("location-schedule", 404, {})
     ELSE LET rows == ScheduleRows(id, startDate[1], endDate[1], appointments) IN
          last' = [Response("location-schedule", 200, {}) EXCEPT
                     !.req = Some([id |-> id, startDate |-> startDate[1],
                                   endDate |-> endDate[1]]),
                     !.data = Some([capacity |-> SeedCapacity[id],
                                    schedule |->
                                      [d \in startDate[1]..endDate[1] |->
                                         ScheduleEntry(d, rows, SeedCapacity[id])]])]

UnknownLocation == "l0"

----------------------------------------------------------------------------
(* GET /api/appointments/conflicts *)

\* prisma.appointment.findMany of the report: the provider's rows that are not
\* CANCELLED, with startDate <= date <= endDate when both are given.  window is
\* None or Some(<<startDate, endDate>>), in days.
ReportRows(providerId, window, table) ==
  {apt \in table :
     /\ apt.providerId = providerId
     /\ apt.status # "CANCELLED"
     /\ (window # None =>
           /\ apt.date >= window[1][1] * MinutesPerDay
           /\ apt.date <= window[1][2] * MinutesPerDay)}

\* ReportConflictsFrom that also reports a row ending where the next starts.
RECURSIVE ReportConflictsTouching(_, _)
ReportConflictsTouching(list, i) ==
  IF i >= Len(list)
  THEN <<>>
  ELSE LET current == list[i]
           next == list[i + 1]
           currentEnd == current.date + current.duration
           here == IF currentEnd >= next.date
                   THEN <<[appointment1 |-> current.id, appointment2 |-> next.id,
                           overlapMinutes |-> currentEnd - next.date]>>
                   ELSE <<>>
       IN  here \o ReportConflictsTouching(list, i + 1)

\* for (let i = 0; i < appointments.length - 1; i++): each row against the
\* next one of the list, from row number i on.
RECURSIVE ReportConflictsFrom(_, _)
ReportConflictsFrom(list, i) ==
  IF i >= Len(list)
  THEN <<>>
  ELSE LET current == list[i]
           next == list[i + 1]
           currentEnd == current.date + current.duration
           here == IF currentEnd > next.date
                   THEN <<[appointment1 |-> current.id, appointment2 |-> next.id,
                           overlapMinutes |-> currentEnd - next.date]>>
                   ELSE <<>>
       IN  here \o ReportConflictsFrom(list, i + 1)

\* The whole handler.  The store returns the rows in one of the orders its
\* sort allows.
ConflictsRequest(providerId, window) ==
  /\ UNCHANGED <<appointments, nextId, pending, availability>>
  /\ IF providerId = None
     THEN last' = Response("conflicts", 400, {})
     ELSE \E list \in DateOrders(ReportRows(providerId[1], window, appointments)) :
            LET conflicts == ReportConflictsFrom(list, 1) IN
            last' = [Response("conflicts", 200, {}) EXCEPT
                       !.req = Some([providerId |-> providerId[1], window |-> window]),
                       !.data = Some([totalAppointments |-> Len(list),
                                      conflicts |-> conflicts,
                                      conflictCount |-> Len(conflicts)])]

----------------------------------------------------------------------------

Init ==
  /\ appointments = {}
  /\ nextId = 1
  /\ pending = EmptyBag
  /\ availability = SeedAvailability
  /\ last = NoResponse

Next ==
  \/ \E value \in CreateBodies : CreateCheck(value)
  \/ \E value \in CreateBodies, f \in Faults : CreateWrite(value, f.sinkUp, f.emitUp)
  \/ \E id \in Ids, value \in PutBodies, f \in Faults :
        PutRequest(id, value, f.sinkUp, f.emitUp)
  \/ \E id \in Ids, status \in Statuses \cup {BadStatus}, f \in Faults :
        PatchStatus(id, status, f.sinkUp, f.emitUp)
  \/ \E id \in Ids, f \in Faults : DeleteRequest(id, f.sinkUp, f.emitUp)
  \/ \E body \in BulkBodies, f \in Faults :
        BulkRequest(body[1], body[2], body[3], f.sinkUp, f.emitUp)

Spec == Init /\ [][Next]_vars

----------------------------------------------------------------------------
(* Slot discovery, the read path, on its own: any table of at most MaxAppts *)
(* rows, the availability handler, and its slot query and loop applied to a *)
(* day's ranges.                                                            *)

Range(h1, m1, h2, m2) == [startTime |-> <<h1, m1>>, endTime |-> <<h2, m2>>]

\* Ranges of the queried day: none, one, two adjoining, one that ends before
\* it starts, one that ends where it starts, one shorter than the longer
\* requested duration, one whose end does not parse, one of which neither
\* bound parses.
DayAvailabilities ==
  {<<>>, <<Range(9, 0, 10, 0)>>, <<Range(9, 0, 9, 30), Range(9, 30, 10, 15)>>,
   <<Range(10, 0, 9, 0)>>, <<Range(9, 0, 9, 0)>>, <<Range(9, 0, 9, 20)>>,
   <<[startTime |-> <<9, 0>>, endTime |-> None]>>,
   <<[startTime |-> None, endTime |-> None]>>}

\* Rows of the tables slot discovery starts from: one status that occupies
\* the provider and the one that does not.
SlotStatuses == {"CONFIRMED", "CANCELLED"}
Rows(id) ==
  [id : {id}, providerId : Providers, locationId : Locations, date : StartTimes,
   duration : ReqDurations, status : SlotStatuses]

\* Tables holding rows 1..n, n <= MaxAppts.
RECURSIVE Tables(_)
Tables(n) ==
  IF n = 0 THEN {{}}
  ELSE Tables(n - 1) \cup {t \cup {r} : t \in {u \in Tables(n - 1) : Cardinality(u) = n - 1},
                                        r \in Rows(n)}

SlotInit ==
  /\ appointments \in Tables(MaxAppts)
  /\ nextId = Cardinality(appointments) + 1
  /\ pending = EmptyBag
  /\ availability = SeedAvailability
  /\ last = NoResponse

SlotNext ==
  \/ \E locationId \in Opt(Locations), duration \in ReqDurations,
        dayAvailability \in DayAvailabilities :
        SlotLoop("p1", locationId, 0, duration, dayAvailability)
  \/ \E providerId \in SlotProviders, locationId \in Opt(Locations),
        duration \in ReqDurations :
        AvailabilityRequest(providerId, locationId, Some(0), duration)
  \/ \E duration \in ReqDurations :
        AvailabilityRequest(Some("p1"), None, None, duration)

SlotSpec == SlotInit /\ [][SlotNext]_vars

----------------------------------------------------------------------------
(* The reports, the read path of locations and conflicts, on their own: any *)
(* table of at most MaxReportAppts rows of one afternoon.                    *)

\* Starts and durations of the rows: on the hour and off it, ending inside the
\* hour, with it, and two hours later.
ReportStarts == {14 * 60, 14 * 60 + 15, 14 * 60 + 45}
ReportDurations == {DurationList[1], DurationList[Len(DurationList)]}

ReportRowsOf(id) ==
  [id : {id}, providerId : {"p1"}, locationId : Locations, date : ReportStarts,
   duration : ReportDurations, status : SlotStatuses]

\* Tables holding rows 1..n, n <= MaxReportAppts.
RECURSIVE ReportTables(_)
ReportTables(n) ==
  IF n = 0 THEN {{}}
  ELSE ReportTables(n - 1)
       \cup {t \cup {r} : t \in {u \in ReportTables(n - 1) : Cardinality(u) = n - 1},
                          r \in ReportRowsOf(n)}

ReportInit ==
  /\ appointments \in ReportTables(MaxReportAppts)
  /\ nextId = Cardinality(appointments) + 1
  /\ pending = EmptyBag
  /\ availability = SeedAvailability
  /\ last = NoResponse

ReportNext ==
  \/ \E id \in Locations \cup {UnknownLocation}, date \in Opt({0}) :
        LocationAvailability(id, date)
  \/ \E id \in Locations \cup {UnknownLocation}, startDate \in Opt({0}),
        endDate \in Opt({0, 1}) :
        LocationSchedule(id, startDate, endDate)
  \/ \E providerId \in Opt(Providers), window \in Opt({<<0, 1>>}) :
        ConflictsRequest(providerId, window)

ReportSpec == ReportInit /\ [][ReportNext]_vars

----------------------------------------------------------------------------
(* Bulk operations on their own: a table of MaxBulkIds appointments, single *)
(* deletes, and bulk requests over a few id lists.                          *)

BulkIds == 1..MaxBulkIds

\* Id lists of the bulk requests: every id once, a few of them, an id twice,
\* an id twice around another, an id no appointment ever had, none.
ScenarioLists ==
  {Ascending(BulkIds, MaxBulkIds), <<2, 4>>, <<1, 1>>, <<1, 2, 1>>,
   <<MaxBulkIds + 1>>, <<>>}

BulkRow(id, status) ==
  [id |-> id, providerId |-> "p1", locationId |-> LocationList[1],
   date |-> OpenTime + id * MinutesPerDay, duration |-> DurationList[1],
   status |-> status]

BulkInit ==
  /\ \E status \in [BulkIds -> BulkStatuses] :
       appointments = {BulkRow(id, status[id]) : id \in BulkIds}
  /\ nextId = MaxBulkIds + 1
  /\ pending = EmptyBag
  /\ availability = SeedAvailability
  /\ last = NoResponse

BulkNext ==
  \/ \E list \in ScenarioLists, f \in Faults :
        BulkRequest("delete", Some(list), Absent, f.sinkUp, f.emitUp)
  \/ \E list \in ScenarioLists, status \in BulkStatuses, f \in Faults :
        BulkRequest("update-status", Some(list), status, f.sinkUp, f.emitUp)
  \/ \E body \in {b \in BulkBodies : b[1] \notin {"delete", "update-status"}
                                      \/ b[2] = None \/ b[3] = Absent} :
        BulkRequest(body[1], body[2], body[3], TRUE, TRUE)
  \/ \E id \in BulkIds, f \in Faults : DeleteRequest(id, f.sinkUp, f.emitUp)

BulkSpec == BulkInit /\ [][BulkNext]_vars

----------------------------------------------------------------------------
(* Reference definitions of the properties *)

\* Two rows overlap as half-open intervals.
RowsOverlap(a, b) ==
  HalfOpenOverlap(a.date, a.date + a.duration, b.date, b.date + b.duration)

\* The rows a candidate [date, date + duration) of a provider conflicts with:
\* same provider, not CANCELLED, overlapping.
RefConflicts(providerId, date, duration, table) ==
  {apt \in table :
     /\ apt.providerId = providerId
     /\ apt.status # "CANCELLED"
     /\ HalfOpenOverlap(date, date + duration, apt.date, apt.date + apt.duration)}

\* No two rows of one provider that are not CANCELLED overlap.
NoOverlapIn(table) ==
  \A a \in table : \A b \in table :
    (/\ a.id # b.id
     /\ a.providerId = b.providerId
     /\ a.status # "CANCELLED"
     /\ b.status # "CANCELLED") => ~RowsOverlap(a, b)

TerminalStatuses == {"CANCELLED", "COMPLETED", "NO_SHOW"}

\* The rows of a location that occupy the hour bucket [h:00, h+1:00) of the
\* modelled day: not CANCELLED, interval intersecting the bucket.
Occupying(locationId, h, table) ==
  {apt \in table :
     /\ apt.locationId = locationId
     /\ apt.status # "CANCELLED"
     /\ HalfOpenOverlap(apt.date, apt.date + apt.duration, h * 60, (h + 1) * 60)}

\* The transition table of the status machine.
PermittedTransitions ==
  {<<"PENDING", "CONFIRMED">>, <<"PENDING", "CANCELLED">>,
   <<"CONFIRMED", "COMPLETED">>, <<"CONFIRMED", "CANCELLED">>,
   <<"CONFIRMED", "NO_SHOW">>}

----------------------------------------------------------------------------
(* C1 *)

\* C1 (as claimed): in every reachable table, any two distinct rows of one
\* provider that are both not CANCELLED have non-overlapping intervals.
C1_NoOverlap ==
  \A a \in appointments : \A b \in appointments :
    (/\ a.id # b.id
     /\ a.providerId = b.providerId
     /\ a.status # "CANCELLED"
     /\ b.status # "CANCELLED") => ~RowsOverlap(a, b)

----------------------------------------------------------------------------
(* C2 *)

\* C2 (as claimed): the conflict check and the insert of a booking are one
\* atomic unit: whenever a create request inserts its row, no row of the same
\* provider that is not CANCELLED and overlaps it is in the table, so of two
\* concurrent overlapping requests at most one is persisted.
C2_CheckAndInsertAtomic ==
  [][\A value \in CreateBodies :
       (\E f \in Faults : CreateWrite(value, f.sinkUp, f.emitUp)) =>
         RefConflicts(value.providerId, value.date, value.duration, appointments) = {}]_vars

----------------------------------------------------------------------------
(* C3 *)

\* The answer of a create request that was refused for a conflict: 409, and the
\* table and the waiting inserts as they were.
CreateRejected ==
  /\ last'.op = "create" /\ last'.code = 409
  /\ appointments' = appointments
  /\ pending' = pending

\* A create request that passed its check: it waits for its insert, nothing is
\* answered or written yet.
CreateAdmitted(value) ==
  /\ CopiesIn(value, pending') = CopiesIn(value, pending) + 1
  /\ appointments' = appointments
  /\ last' = last

\* The insert of a create request: one new row with the requested fields, the
\* other rows kept, 201.
CreateInserted(value) ==
  /\ \E apt \in appointments' \ appointments :
       /\ apt.providerId = value.providerId
       /\ apt.date = value.date
       /\ apt.duration = value.duration
       /\ apt.status = value.status
       /\ appointments' = appointments \cup {apt}
  /\ last'.op = "create" /\ last'.code = 201

\* C3: a valid create request is answered 409 exactly when some row of the
\* same provider that is not CANCELLED overlaps the requested interval.  With
\* such a row every run of the check step ends in the 409 and writes nothing
\* (and the step can always run); without one no run of it ends in a 409: the
\* request goes on to its insert, and every run of the insert adds the row
\* with the requested fields and answers 201.
C3_RejectedIffConflict ==
  \A value \in CreateBodies :
    ValidCreate(value) =>
      LET conflict == RefConflicts(value.providerId, value.date, value.duration,
                                   appointments) # {}
      IN  /\ conflict => /\ ENABLED CreateCheck(value)
                         /\ ~ENABLED (CreateCheck(value) /\ ~CreateRejected)
          /\ ~conflict => ~ENABLED (CreateCheck(value) /\ ~CreateAdmitted(value))
          /\ \A sinkUp \in BOOLEAN :
               ~ENABLED (CreateWrite(value, sinkUp, TRUE) /\ ~CreateInserted(value))

\* A booking was just rejected with 409 naming a row of the table that is not
\* CANCELLED, and the table also holds a row of another provider that an
\* insert put there.
C3_Witness ==
  /\ last.op = "create" /\ last.code = 409
  /\ \E apt \in appointments : apt.id \in last.ids /\ apt.status # "CANCELLED"
  /\ \E a \in appointments, b \in appointments : a.providerId # b.providerId

----------------------------------------------------------------------------
(* C4 *)

\* C4: the conflict list of a 409 is exactly the set of rows with the same
\* provider, a status other than CANCELLED and an interval overlapping the
\* candidate: no run of the check step of a valid request ends in a 409 whose
\* list differs from that set.
C4_ConflictListExact ==
  \A value \in CreateBodies :
    ValidCreate(value) =>
      ~ENABLED (/\ CreateCheck(value)
                /\ last'.op = "create" /\ last'.code = 409 /\ pending' = pending
                /\ last'.ids # IdsOf(RefConflicts(value.providerId, value.date,
                                                  value.duration, appointments)))

\* A 409 that lists two conflicts.
C4_Witness ==
  /\ last.op = "create" /\ last.code = 409
  /\ Cardinality(last.ids) >= 2

----------------------------------------------------------------------------
(* C5 *)

ProbeStarts == {OpenTime - 15 + 5 * k : k \in 0..MaxProbeIdx}

\* C5: for every row of the table and every candidate interval of a schema
\* duration, the three-clause tests of the booking check, the update check and
\* the slot generator each answer exactly s1 < e2 /\ s2 < e1; so they agree
\* with each other, and a candidate that ends where the row starts, or starts
\* where it ends, does not overlap it.
C5_OverlapTestsAgree ==
  \A apt \in appointments : \A s \in ProbeStarts : \A d \in Durations :
    LET e   == s + d
        ref == HalfOpenOverlap(s, e, apt.date, apt.date + apt.duration)
    IN  /\ PostOverlap(s, e, apt) = ref
        /\ PutOverlap(s, e, apt) = ref
        /\ SlotOverlap(s, e, apt) = ref
        /\ (e = apt.date \/ s = apt.date + apt.duration) => ~SlotOverlap(s, e, apt)

\* The booking check has just admitted an appointment, and the table holds two
\* back-to-back rows of one provider, neither CANCELLED.
C5_Witness ==
  /\ last.op = "create" /\ last.code = 201
  /\ \E a \in appointments, b \in appointments :
       /\ a.providerId = b.providerId
       /\ a.status # "CANCELLED" /\ b.status # "CANCELLED"
       /\ a.date + a.duration = b.date
       /\ a.date + a.duration \in ProbeStarts

----------------------------------------------------------------------------
(* C6 *)

\* A slot answer: the handler's 200, or the slot query and loop applied to a
\* day's ranges.
SlotAnswer ==
  /\ last.op \in {"availability", "slotloop"}
  /\ last.code = 200
  /\ last.req # None

----------------------------------------------------------------------------
(* C7 *)

\* The modelled day, day 0, is a Monday.
WeekdayName(date) == "monday"

\* The ranges slot discovery is asked about: those handed to the loop, or, for
\* the handler, the provider's ranges of the queried weekday.
QueriedRanges ==
  IF last.op = "slotloop"
  THEN last.req[1].dayAvailability
  ELSE DayAvailability(availability[last.req[1].providerId],
                       WeekdayName(last.req[1].date))

\* The queried ranges of which both bounds parse.
ParsedRanges ==
  {i \in 1..Len(QueriedRanges) :
     QueriedRanges[i].startTime # None /\ QueriedRanges[i].endTime # None}

\* C7 (as claimed): after a slot request for a provider and duration, every
\* interval of that duration that lies inside one of the queried ranges and
\* overlaps no row of the provider that is not CANCELLED is among the slots
\* answered.
C7_SlotComplete ==
  (last.op \in {"availability", "slotloop"} /\ last.req # None) =>
    LET q == last.req[1] IN
    \A i \in ParsedRanges :
      LET start == ClockTime(q.date, QueriedRanges[i].startTime)
          end   == ClockTime(q.date, QueriedRanges[i].endTime)
      IN  \A s \in start..(end - q.duration) :
            RefConflicts(q.providerId, s, q.duration, appointments) = {} =>
              \E k \in 1..Len(last.slots) :
                /\ last.slots[k].start = s
                /\ last.slots[k].end = s + q.duration

----------------------------------------------------------------------------
(* C8 *)

\* C8 (as claimed): a slot request for 30 minutes, for a provider whose ranges
\* of the queried weekday are 09:00 - 12:00 and who has no row in the table, is
\* answered 200 with 6 slots, the first at 09:00, the second at 09:15, the
\* last at 11:30.
C8_ScenarioA ==
  (/\ last.op = "availability"
   /\ last.req # None
   /\ last.req[1].duration = 30
   /\ DayAvailability(availability[last.req[1].providerId],
                      WeekdayName(last.req[1].date)) = <<Range(9, 0, 12, 0)>>
   /\ \A apt \in appointments : apt.providerId # last.req[1].providerId)
  => /\ last.code = 200
     /\ Len(last.slots) = 6
     /\ last.slots[1].start = 9 * 60
     /\ last.slots[2].start = 9 * 60 + 15
     /\ last.slots[6].start = 11 * 60 + 30

----------------------------------------------------------------------------
(* C9 *)

\* C9 (as claimed): a status update, by PATCH or by bulk update-status, of a
\* row whose status is CANCELLED, COMPLETED or NO_SHOW is refused and leaves
\* the table as it was.
C9_TerminalStatusKept ==
  \A apt \in appointments :
    apt.status \in TerminalStatuses =>
      \A status \in Statuses :
        /\ ~ENABLED (/\ PatchStatus(apt.id, status, TRUE, TRUE)
                     /\ ~(last'.code >= 400 /\ appointments' = appointments))
        /\ ~ENABLED (/\ BulkRequest("update-status", Some(<<apt.id>>), status, TRUE, TRUE)
                     /\ ~(last'.code >= 400 /\ appointments' = appointments))

\* C9 (amended): a status update of a row whose status is CANCELLED, COMPLETED
\* or NO_SHOW is applied like any other.  A PATCH with any of the five statuses
\* can run, answers 200 and replaces the row's status by the requested one,
\* leaving every other row and field; a bulk update-status whose list names the
\* row answers 200 and sets the requested status on it.
C9_TerminalStatusOverwritten ==
  \A apt \in appointments :
    apt.status \in TerminalStatuses =>
      \A status \in Statuses : \A sinkUp \in BOOLEAN :
        /\ ENABLED PatchStatus(apt.id, status, sinkUp, TRUE)
        /\ ~ENABLED (/\ PatchStatus(apt.id, status, sinkUp, TRUE)
                     /\ ~(/\ last'.op = "status" /\ last'.code = 200
                          /\ appointments' = (appointments \ {apt})
                                \cup {[apt EXCEPT !.status = status]}))
        /\ \A list \in BulkLists :
             (\E i \in 1..Len(list) : list[i] = apt.id) =>
               ~ENABLED (/\ BulkRequest("update-status", Some(list), status, sinkUp, TRUE)
                         /\ ~(/\ last'.op = "bulk" /\ last'.code = 200
                              /\ [apt EXCEPT !.status = status] \in appointments'))

\* A PATCH has just moved a CANCELLED row to CONFIRMED and was answered 200.
C9_Witness ==
  /\ last.op = "status" /\ last.code = 200
  /\ last.prev = "CANCELLED"
  /\ \E apt \in appointments : apt.id \in last.ids /\ apt.status = "CONFIRMED"

----------------------------------------------------------------------------
(* C10 *)

StatusOnly(status) ==
  [providerId |-> None, locationId |-> None, date |-> None, duration |-> None,
   status |-> Some(status)]

----------------------------------------------------------------------------
(* C11 *)

\* C11 (as claimed): in every reachable table, for every location and every
\* hour bucket, the rows of the location that are not CANCELLED and occupy the
\* bucket are at most as many as the location's capacity.
C11_CapacityRespected ==
  \A l \in Locations : \A h \in HourKeys :
    Cardinality(Occupying(l, h, appointments)) <= SeedCapacity[l]

----------------------------------------------------------------------------
(* C18 *)

\* Valid PUT bodies.
ValidPutBodies == {value \in PutBodies : ValidUpdate(value)}

\* The answer to a request naming an id the table does not hold: not found,
\* and the table as it was.
NotFoundAnswer == last'.code = 404 /\ appointments' = appointments

\* C18 (as claimed): for every id that no row of the table has, every valid
\* update, every status change and every delete naming it is answered 404 and
\* changes nothing.
C18_AbsentIdNotFound ==
  \A id \in Ids :
    RowsWithId(id, appointments) = {} =>
      \A sinkUp \in BOOLEAN :
        /\ \A value \in ValidPutBodies :
             ~ENABLED (PutRequest(id, value, sinkUp, TRUE) /\ ~NotFoundAnswer)
        /\ \A status \in Statuses :
             ~ENABLED (PatchStatus(id, status, sinkUp, TRUE) /\ ~NotFoundAnswer)
        /\ ~ENABLED (DeleteRequest(id, sinkUp, TRUE) /\ ~NotFoundAnswer)

----------------------------------------------------------------------------
(* C19 *)

\* Candidate starts around the rows of the table: on them, within a duration
\* of them, and at and just past the edges of the 24 hour window.
WindowProbeOffsets ==
  {-WindowMinutes - 1, -WindowMinutes, -90, -89, 0, 29,
   WindowMinutes, WindowMinutes + 1}
WindowProbes == {t + o : t \in StartTimes, o \in WindowProbeOffsets}

\* The conflict check run against every row of the provider that is not
\* CANCELLED, with no window.
UnwindowedHasConflict(value, table) ==
  \E apt \in table :
    /\ apt.providerId = value.providerId
    /\ apt.status # "CANCELLED"
    /\ PostOverlap(value.date, value.date + value.duration, apt)

\* C19: for every candidate of a schema duration, every row of the provider
\* that is not CANCELLED and overlaps the candidate starts within 24 hours of
\* the candidate's start and is returned by the windowed conflict query, and
\* the booking check on the windowed query decides as the same check on all
\* rows of the provider that are not CANCELLED.
C19_WindowLosesNoConflict ==
  \A providerId \in Providers : \A date \in WindowProbes : \A duration \in Durations :
    LET value == [providerId |-> providerId, date |-> date, duration |-> duration]
        overlapping == RefConflicts(providerId, date, duration, appointments)
        conflicts == PostConflictQuery(value, appointments)
    IN  /\ \A apt \in overlapping :
             /\ apt.date >= date - WindowMinutes
             /\ apt.date <= date + WindowMinutes
        /\ overlapping \subseteq conflicts
        /\ PostHasConflict(value, conflicts) = UnwindowedHasConflict(value, appointments)

\* A booking was just rejected by the windowed check for a row that started
\* before it, while for a candidate a day and a minute later the window leaves
\* that row out of the query.
C19_Witness ==
  /\ last.op = "create" /\ last.code = 409
  /\ \E apt \in appointments :
       /\ apt.id \in last.ids
       /\ apt.duration > StartStep
       /\ apt \notin PostConflictQuery(
                       [providerId |-> apt.providerId,
                        date |-> apt.date + WindowMinutes + 1, duration |-> 90],
                       appointments)

----------------------------------------------------------------------------
(* C13 *)

\* The ids of the table.
ExistingIds == IdsOf(appointments)

\* A bulk delete or bulk status update of the list, with the sink up or down.
BulkRun(list) ==
  \E sinkUp \in BOOLEAN :
    \/ BulkRequest("delete", Some(list), Absent, sinkUp, TRUE)
    \/ \E status \in BulkStatuses :
         BulkRequest("update-status", Some(list), status, sinkUp, TRUE)

\* C13 (as claimed): the affectedCount of every bulk delete and bulk status
\* update is the number of entries of its id list that are ids of rows of the
\* table the operation runs on; an id listed twice counts twice.
C13_CountsListEntries ==
  \A list \in ScenarioLists :
    ~ENABLED (/\ BulkRun(list)
              /\ last'.count #
                   Cardinality({i \in 1..Len(list) : list[i] \in ExistingIds}))

\* C13 (amended): every bulk delete and bulk status update is answered 200
\* with an affectedCount equal to the number of distinct ids of its list that
\* are ids of rows of the table the operation runs on: an id listed more than
\* once counts once, an id of no row counts nothing, whatever single deletes
\* ran before.
C13_CountsDistinctExistingIds ==
  \A list \in ScenarioLists :
    /\ ENABLED BulkRun(list)
    /\ ~ENABLED (/\ BulkRun(list)
                 /\ ~(/\ last'.code = 200
                      /\ last'.count =
                           Cardinality({id \in ExistingIds :
                                          \E i \in 1..Len(list) : list[i] = id})))

\* A bulk delete of five ids, two of which single deletes had removed before,
\* was answered with affectedCount 3.
C13_Witness ==
  /\ last.op = "bulk" /\ last.code = 200
  /\ last.req = Some(Ascending(BulkIds, MaxBulkIds))
  /\ Len(last.req[1]) = 5
  /\ last.count = 3
  /\ appointments = {}

----------------------------------------------------------------------------
(* C14 *)

\* A bulk request the handler refuses: no action, no array of ids, an action
\* it does not know, or a status update without a status.
RefusedBulkBodies ==
  {b \in BulkBodies :
     \/ b[1] \notin {"delete", "update-status"}
     \/ b[2] = None
     \/ (b[1] = "update-status" /\ b[3] = Absent)}

\* C14: every bulk delete and bulk status update that is answered 200 called
\* the audit sink once and emitted one notification, on the global channel,
\* whatever the length of its id list; every refused bulk request is answered
\* 400, leaves the table as it was, and calls and emits nothing.
C14_OneAuditOneEvent ==
  /\ \A list \in ScenarioLists :
       ~ENABLED (/\ BulkRun(list)
                 /\ ~(/\ last'.code = 200
                      /\ last'.audits = 1
                      /\ last'.events = 1 /\ last'.event = GlobalChannel))
  /\ \A b \in RefusedBulkBodies : \A sinkUp \in BOOLEAN :
       /\ ENABLED BulkRequest(b[1], b[2], b[3], sinkUp, TRUE)
       /\ ~ENABLED (/\ BulkRequest(b[1], b[2], b[3], sinkUp, TRUE)
                    /\ ~(/\ last'.code = 400
                         /\ appointments' = appointments
                         /\ last'.audits = 0 /\ last'.events = 0))

\* A bulk status update of five ids was answered 200 with one audit entry
\* written and one notification on the global channel.
C14_Witness ==
  /\ last.op = "bulk" /\ last.code = 200
  /\ Len(last.req[1]) = 5 /\ last.count = 5
  /\ appointments # {}
  /\ last.audits = 1 /\ last.audit = "written"
  /\ last.events = 1 /\ last.event = GlobalChannel

----------------------------------------------------------------------------
(* C15 *)

\* The answer of a write handler whose audit call failed: the success code,
\* the notification on the channel, the failure kept from the caller.
SinkDownAnswer(code, channel) ==
  /\ last'.code = code
  /\ last'.audit = "swallowed"
  /\ last'.events = 1 /\ last'.event = channel

\* The id occurs in the list.
Listed(id, list) == \E i \in 1..Len(list) : list[i] = id

\* C15: with the audit sink down, every write handler that reaches its store
\* call still answers its success code and publishes its notification, and
\* the change it made is in the table: the insert of a booking, the update of
\* a PUT that is not refused for a conflict, the new status of a status
\* change, the removal of a delete, the removals and the new statuses of the
\* bulk operations.
C15_AuditFailureSwallowed ==
  /\ \A value \in CreateBodies :
       ~ENABLED (/\ CreateWrite(value, FALSE, TRUE)
                 /\ ~(SinkDownAnswer(201, ProviderRoom) /\ CreateInserted(value)))
  /\ \A apt \in appointments :
       /\ \A value \in ValidPutBodies :
            ~ENABLED (/\ PutRequest(apt.id, value, FALSE, TRUE)
                      /\ last'.code # 409
                      /\ ~(/\ SinkDownAnswer(200, ProviderRoom)
                           /\ UpdatedRow(apt, value) \in appointments'))
       /\ \A status \in Statuses :
            ~ENABLED (/\ PatchStatus(apt.id, status, FALSE, TRUE)
                      /\ ~(/\ SinkDownAnswer(200, ProviderRoom)
                           /\ [apt EXCEPT !.status = status] \in appointments'))
       /\ ~ENABLED (/\ DeleteRequest(apt.id, FALSE, TRUE)
                    /\ ~(/\ SinkDownAnswer(200, ProviderRoom)
                         /\ apt \notin appointments'))
  /\ \A list \in BulkLists :
       /\ ~ENABLED (/\ BulkRequest("delete", Some(list), Absent, FALSE, TRUE)
                    /\ ~(/\ SinkDownAnswer(200, GlobalChannel)
                         /\ \A apt \in appointments' : ~Listed(apt.id, list)))
       /\ \A status \in Statuses :
            ~ENABLED (/\ BulkRequest("update-status", Some(list), status, FALSE, TRUE)
                      /\ ~(/\ SinkDownAnswer(200, GlobalChannel)
                           /\ \A apt \in appointments' :
                                Listed(apt.id, list) => apt.status = status))

\* A booking was answered 201 and its row is in the table although the audit
\* entry could not be written.
C15_Witness ==
  /\ last.op = "create" /\ last.code = 201
  /\ last.audit = "swallowed" /\ last.events = 1
  /\ appointments # {}

----------------------------------------------------------------------------
(* C17 *)

----------------------------------------------------------------------------
(* C16 *)

\* C16 (as claimed): the conflict report of a provider and window lists every
\* pair of rows of the provider in the window that are not CANCELLED and whose
\* intervals overlap.
C16_ReportHasEveryPair ==
  (last.op = "conflicts" /\ last.code = 200) =>
    LET rows == ReportRows(last.req[1].providerId, last.req[1].window, appointments)
        conflicts == last.data[1].conflicts
    IN  \A a \in rows : \A b \in rows :
          (a.id # b.id /\ RowsOverlap(a, b)) =>
            \E k \in 1..Len(conflicts) :
              {conflicts[k].appointment1, conflicts[k].appointment2} = {a.id, b.id}

----------------------------------------------------------------------------
(* C12 *)

\* The answer of the availability handler of a location for the modelled day.
HourReport == last.op = "location-availability" /\ last.code = 200

\* The hours reported for the location whose bucket holds more rows that are
\* not CANCELLED than the location has capacity.
OverfullHours ==
  {h \in ReportedHours :
     Cardinality(Occupying(last.req[1].id, h, appointments)) > last.data[1].capacity}

----------------------------------------------------------------------------
(* C20 *)

\* The rows among rows whose interval intersects the hour [h:00, h+1:00).
Intersecting(rows, h) ==
  {apt \in rows :
     HalfOpenOverlap(apt.date, apt.date + apt.duration, h * 60, (h + 1) * 60)}

\* The rows among rows for which h is one of the buckets H .. H + ceil((M + D)
\* / 60) - 1, the row starting at H:M and lasting D minutes.
Spanning(rows, h) ==
  {apt \in rows :
     LET H == apt.date \div 60
         M == apt.date % 60
         D == apt.duration
         last_bucket == H + ((M + D + 59) \div 60) - 1
     IN  h >= H /\ h <= last_bucket}

\* C20: for every location, hourlyCount of the location's rows of the day
\* that are not CANCELLED holds, at every hour h, the number of those rows
\* whose interval intersects [h:00, h+1:00), which is the number of rows with
\* h among the buckets H .. H + ceil((M + D) / 60) - 1; and the
\* currentAppointments an availability answer reports for an hour is that
\* number.
C20_BucketsExact ==
  /\ \A l \in Locations :
       LET rows == LocationDayRows(l, 0, appointments)
           hourlyCount == HourlyCount(rows)
       IN  \A h \in HourKeys :
             /\ hourlyCount[h] = Cardinality(Intersecting(rows, h))
             /\ hourlyCount[h] = Cardinality(Spanning(rows, h))
  /\ HourReport =>
       \A h \in ReportedHours :
         last.data[1].availabilityByHour[h].currentAppointments
           = Cardinality(Intersecting(
               LocationDayRows(last.req[1].id, 0, appointments), h))

\* An availability answer for a location with a row from 14:45 to 16:15 that
\* is not CANCELLED: the hours 14, 15 and 16 count it, the hours 13 and 17
\* count nothing.
C20_Witness ==
  /\ HourReport
  /\ \E apt \in appointments :
       /\ apt.locationId = last.req[1].id
       /\ apt.status # "CANCELLED"
       /\ apt.date = 14 * 60 + 45 /\ apt.duration = 90
  /\ \A h \in {14, 15, 16} :
       last.data[1].availabilityByHour[h].currentAppointments >= 1
  /\ \A h \in {13, 17} :
       last.data[1].availabilityByHour[h].currentAppointments = 0

----------------------------------------------------------------------------
(* C21 *)

\* C21: in every availability answer of a location, for every reported hour,
\* availableSlots = max(0, capacity - currentAppointments), which lies in
\* 0 .. capacity, and isAvailable is true exactly when currentAppointments <
\* capacity, which is exactly when availableSlots > 0.
C21_AvailableClamped ==
  HourReport =>
    \A h \in ReportedHours :
      LET entry    == last.data[1].availabilityByHour[h]
          capacity == last.data[1].capacity
          occupied == entry.currentAppointments
      IN  /\ entry.availableSlots
               = (IF capacity - occupied > 0 THEN capacity - occupied ELSE 0)
          /\ entry.availableSlots >= 0
          /\ entry.availableSlots <= capacity
          /\ entry.isAvailable = (occupied < capacity)
          /\ entry.isAvailable = (entry.availableSlots > 0)

\* An availability answer with an hour that has room, an hour that is exactly
\* full and an hour that is over capacity.
C21_Witness ==
  /\ HourReport
  /\ \E h \in ReportedHours :
       last.data[1].availabilityByHour[h].availableSlots = last.data[1].capacity
  /\ \E h \in ReportedHours :
       last.data[1].availabilityByHour[h].currentAppointments = last.data[1].capacity
  /\ \E h \in ReportedHours :
       last.data[1].availabilityByHour[h].currentAppointments > last.data[1].capacity

----------------------------------------------------------------------------
(* C28 *)

\* C28: in every conflict report, conflictCount is the number of pairs
\* listed; it is 0 exactly when no two rows of the provider in the window that
\* are not CANCELLED overlap; and every pair listed is a pair of two distinct
\* such rows whose intervals overlap.
C28_ReportDetectsAnyOverlap ==
  (last.op = "conflicts" /\ last.code = 200) =>
    LET rows == ReportRows(last.req[1].providerId, last.req[1].window, appointments)
        conflicts == last.data[1].conflicts
    IN  /\ last.data[1].conflictCount = Len(conflicts)
        /\ (last.data[1].conflictCount = 0)
             = (\A a \in rows : \A b \in rows : a.id # b.id => ~RowsOverlap(a, b))
        /\ \A k \in 1..Len(conflicts) :
             \E a \in rows : \E b \in rows :
               /\ a.id = conflicts[k].appointment1
               /\ b.id = conflicts[k].appointment2
               /\ a.id # b.id
               /\ RowsOverlap(a, b)

\* A report over three rows that lists exactly one pair, two rows of the table
\* being back to back.
C28_Witness ==
  /\ last.op = "conflicts" /\ last.code = 200
  /\ last.data[1].totalAppointments = 3
  /\ last.data[1].conflictCount = 1
  /\ \E a \in appointments : \E b \in appointments :
       /\ a.id # b.id /\ a.status # "CANCELLED" /\ b.status # "CANCELLED"
       /\ a.date + a.duration = b.date

----------------------------------------------------------------------------
(* C22 *)

\* The times the cursor of the loop takes in range number i of the queried
\* ranges: none when a bound does not parse or the end is not after the
\* start, else start, start + 15, ... below the end.
CursorTimes(i) ==
  IF i \notin ParsedRanges
  THEN {}
  ELSE LET start == ClockTime(last.req[1].date, QueriedRanges[i].startTime)
           end   == ClockTime(last.req[1].date, QueriedRanges[i].endTime)
       IN  {start + 15 * k : k \in 0..((end - start + 14) \div 15 - 1)}

\* The length of range number i, 0 when it has none.
RangeLength(i) ==
  IF i \notin ParsedRanges
  THEN 0
  ELSE LET start == ClockTime(last.req[1].date, QueriedRanges[i].startTime)
           end   == ClockTime(last.req[1].date, QueriedRanges[i].endTime)
       IN  IF end > start THEN end - start ELSE 0

----------------------------------------------------------------------------
(* C23 *)

\* The order of the steps of a write handler that has written.
EffectOrder == <<"persist", "audit", "notify">>

IsPrefix(s, t) == Len(s) <= Len(t) /\ \A i \in 1..Len(s) : s[i] = t[i]

\* C23: a create that reaches its insert persists the row first, then writes
\* the audit entry, then emits the notification: whatever fault it meets, the
\* steps it took are a beginning of persist, audit, notify, the row is in the
\* table, and a notification is out only when all three ran in that order.  A
\* create that is rejected (400 or 409) writes no audit entry, emits no
\* notification and leaves the table alone.
C23_PersistAuditNotify ==
  \A value \in CreateBodies :
    /\ ~ENABLED (/\ CreateCheck(value)
                 /\ ~(/\ appointments' = appointments
                      /\ \/ last' = last
                         \/ /\ last'.code \in {400, 409}
                            /\ last'.effects = <<>>
                            /\ last'.audits = 0
                            /\ last'.events = 0))
    /\ \A f \in Faults :
         ~ENABLED (/\ CreateWrite(value, f.sinkUp, f.emitUp)
                   /\ ~(/\ NewRow(nextId, value) \in appointments'
                        /\ last'.effects # <<>>
                        /\ IsPrefix(last'.effects, EffectOrder)
                        /\ last'.audits > 0 => Len(last'.effects) >= 2
                        /\ last'.events > 0 => last'.effects = EffectOrder))

\* A create answered 201 after persisting, auditing and notifying, its row in
\* the table.
C23_Witness ==
  /\ last.op = "create"
  /\ last.code = 201
  /\ last.effects = EffectOrder
  /\ last.audits = 1
  /\ last.events = 1
  /\ appointments # {}

----------------------------------------------------------------------------
(* C24 *)

\* C24: no create and no update ends with a failure answer while the row it
\* added or changed stays in the table: whatever fault the request meets, an
\* answer other than 201 (create) or 200 (update) leaves the table as it was.
C24_FailureLeavesNoWrite ==
  /\ \A value \in CreateBodies, f \in Faults :
       ~ENABLED (/\ CreateWrite(value, f.sinkUp, f.emitUp)
                 /\ last'.code # 201
                 /\ appointments' # appointments)
  /\ \A id \in Ids, value \in PutBodies, f \in Faults :
       ~ENABLED (/\ PutRequest(id, value, f.sinkUp, f.emitUp)
                 /\ last'.code # 200
                 /\ appointments' # appointments)

----------------------------------------------------------------------------
(* C25 *)

\* C25: a create that runs with no other request between its check and its
\* insert keeps the no-overlap property: on every table without overlap, for
\* every body (whatever status it sends), the table the handler leaves has no
\* overlap, and a body the check lets through is in it.
C25_CreateAloneKeepsNoOverlap ==
  NoOverlapIn(appointments) =>
    \A value \in CreateBodies :
      LET after == CreateAlone(value, appointments, nextId) IN
      /\ NoOverlapIn(after)
      /\ RefConflicts(value.providerId, value.date, value.duration, appointments) = {}
           /\ ValidCreate(value)
           => NewRow(nextId, value) \in after
      /\ ~ENABLED (/\ CreateCheck(value)
                   /\ pending' # pending
                   /\ CreateAlone(value, appointments, nextId) = appointments)

\* A create has just inserted a row back to back with another row of the same
\* provider, neither CANCELLED: the check let a body through next to a row
\* it had to look at.
C25_Witness ==
  /\ last.op = "create"
  /\ last.code = 201
  /\ NoOverlapIn(appointments)
  /\ \E a \in appointments, b \in appointments :
       /\ a.id < b.id
       /\ a.providerId = b.providerId
       /\ a.status # "CANCELLED"
       /\ b.status # "CANCELLED"
       /\ a.date + a.duration = b.date

----------------------------------------------------------------------------
(* C26 *)

\* C26: an update that runs with no other request interleaved keeps the
\* no-overlap property for every combination of changed fields: on a table
\* without overlap, no PUT (a change of provider only and a change of status
\* only included) leaves a table with an overlap.
C26_UpdateKeepsNoOverlap ==
  NoOverlapIn(appointments) =>
    \A id \in Ids, value \in PutBodies :
      ~ENABLED (PutRequest(id, value, TRUE, TRUE) /\ ~NoOverlapIn(appointments'))

----------------------------------------------------------------------------
(* C27 *)

\* The non-cancelled rows of its provider that overlap a row of the table.
Rivals(apt) ==
  RefConflicts(apt.providerId, apt.date, apt.duration, appointments \ {apt})

\* C27: a status change (PATCH or bulk) of a CANCELLED row to a status other
\* than CANCELLED is accepted only when no other non-cancelled row of the
\* provider overlaps the row.
C27_ReactivationChecked ==
  \A apt \in appointments, status \in Statuses \ {"CANCELLED"} :
    (apt.status = "CANCELLED" /\ Rivals(apt) # {}) =>
      /\ ~ENABLED (PatchStatus(apt.id, status, TRUE, TRUE) /\ last'.code = 200)
      /\ ~ENABLED (/\ BulkRequest("update-status", Some(<<apt.id>>), status,
                                  TRUE, TRUE)
                   /\ last'.code = 200)

----------------------------------------------------------------------------
(* C29 *)

\* The step leaves every row whose id is outside ids as it was, and changes
\* nothing but the status of the others; no row appears.
OnlyStatusOf(ids) ==
  /\ nextId' = nextId
  /\ \A apt \in appointments : apt.id \notin ids => apt \in appointments'
  /\ \A apt \in appointments' :
       \E old \in appointments :
         /\ old.id = apt.id
         /\ [apt EXCEPT !.status = old.status] = old

\* C29: a status PATCH changes only the status of the row it addresses (the
\* row stays, its other fields and every other row are as before), and a
\* bulk request touches only the rows whose ids it lists: a bulk status
\* update changes only their status, a bulk delete removes only them.
C29_NarrowFrame ==
  /\ \A id \in Ids, status \in Statuses, f \in Faults :
       ~ENABLED (/\ PatchStatus(id, status, f.sinkUp, f.emitUp)
                 /\ ~(/\ OnlyStatusOf({id})
                      /\ IdsOf(appointments') = IdsOf(appointments)))
  /\ \A list \in BulkLists, f \in Faults :
       LET listed == {list[i] : i \in 1..Len(list)} IN
       /\ \A status \in BulkStatuses :
            ~ENABLED (/\ BulkRequest("update-status", Some(list), status,
                                     f.sinkUp, f.emitUp)
                      /\ ~(/\ OnlyStatusOf(listed)
                           /\ IdsOf(appointments') = IdsOf(appointments)))
       /\ ~ENABLED (/\ BulkRequest("delete", Some(list), Absent,
                                   f.sinkUp, f.emitUp)
                    /\ ~(/\ OnlyStatusOf(listed)
                         /\ appointments' \subseteq appointments))

\* A bulk status update of one id has been answered with count 1, the row it
\* names CONFIRMED and the other row of the table still PENDING.
C29_Witness ==
  /\ last.op = "bulk"
  /\ last.code = 200
  /\ last.count = 1
  /\ \E id \in Ids :
       /\ last.req = Some(<<id>>)
       /\ \E a \in appointments, b \in appointments :
            /\ a.id = id
            /\ a.status = "CONFIRMED"
            /\ b.id # id
            /\ b.status = "PENDING"

----------------------------------------------------------------------------
(* C30 *)

\* Valid update bodies that move or resize the appointment.
RescheduleBodies ==
  {value \in PutBodies :
     ValidUpdate(value) /\ (value.date # None \/ value.duration # None)}

\* C30: an update that sends a date or a duration is answered 409 exactly
\* when some other row of the resulting provider that is not CANCELLED
\* overlaps the new interval (the row being updated never counts: an update
\* does not conflict with itself), and a 409 leaves the table as it was.
C30_UpdateConflictsWithOthersOnly ==
  \A apt \in appointments, value \in RescheduleBodies, f \in Faults :
    LET after  == UpdatedRow(apt, value)
        others == RefConflicts(after.providerId, after.date, after.duration,
                               appointments \ {apt})
    IN  ~ENABLED (/\ PutRequest(apt.id, value, f.sinkUp, f.emitUp)
                  /\ ~(/\ (last'.code = 409) = (others # {})
                       /\ last'.code = 409 => appointments' = appointments
                       /\ last'.code # 409 => after \in appointments'))

\* An update has just been refused with 409 on a table that holds two rows
\* of one provider, neither CANCELLED.
C30_Witness ==
  /\ last.op = "update"
  /\ last.code = 409
  /\ \E a \in appointments, b \in appointments :
       /\ a.id # b.id
       /\ a.providerId = b.providerId
       /\ a.status # "CANCELLED"
       /\ b.status # "CANCELLED"

====
